---------------------------- MODULE Spec2Model ----------------------------
(***************************************************************************)
(* State-machine model of the bibsearch record store (class BibDB): the    *)
(* bib table with its two UNIQUE columns, the fts5 mirror kept by          *)
(* triggers, the add loop with custom-key generation, update, rename,      *)
(* remove, the commit boundary and the search result cache.                *)
(*                                                                         *)
(* Text is modelled as a sequence of one-character strings, so that        *)
(* splitting, lower-casing, prefix tests and LIKE patterns are computed    *)
(* the way the Python code computes them.                                  *)
(***************************************************************************)
EXTENDS Integers, Sequences, FiniteSets, TLC

(***************************************************************************)
(* Bounds of the model.                                                    *)
(***************************************************************************)
\* rowids below the largest one that may lie unused (DELETE frees them and
\* INSERT does not hand them out again) when another record is added
MaxRowidHoles == 0

\* iterations of the add loop that are followed before the run is cut off
MaxLoopTries == 29

(***************************************************************************)
(* Text helpers.                                                           *)
(***************************************************************************)
\* Python None / SQL NULL; no text equals it (its element is not a character)
Null == <<"<None>">>

UpperAlpha == <<"A","B","C","D","E","F","G","H","I","J","K","L","M",
                "N","O","P","Q","R","S","T","U","V","W","X","Y","Z">>

LowerAlpha == <<"a","b","c","d","e","f","g","h","i","j","k","l","m",
                "n","o","p","q","r","s","t","u","v","w","x","y","z">>

Digits == <<"0","1","2","3","4","5","6","7","8","9">>

Range(s) == {s[i] : i \in DOMAIN s}

Max(S) == CHOOSE x \in S : \A y \in S : y <= x

IndexIn(c, alphabet) == CHOOSE i \in DOMAIN alphabet : alphabet[i] = c

UpperChars == Range(UpperAlpha)

DigitChars == Range(Digits)

AlnumChars == Range(LowerAlpha) \cup Range(UpperAlpha) \cup Range(Digits)

LowerOf == [c \in UpperChars |-> LowerAlpha[IndexIn(c, UpperAlpha)]]

\* str.lower() on one character
LowerChar(c) == IF c \in UpperChars THEN LowerOf[c] ELSE c

\* str.lower()
Lower(s) == [i \in DOMAIN s |-> LowerChar(s[i])]

\* str.startswith(prefix)
StartsWith(s, prefix) ==
    /\ Len(prefix) <= Len(s)
    /\ SubSeq(s, 1, Len(prefix)) = prefix

\* position of the first occurrence of character c in s, 0 when absent
Find(s, c) ==
    IF c \in Range(s) THEN CHOOSE i \in DOMAIN s : s[i] = c /\ \A j \in 1..(i-1) : s[j] # c
    ELSE 0

\* str.split() with no argument: runs of blanks separate the words
RECURSIVE SplitWords(_)
SplitWords(s) ==
    IF s = <<>> THEN <<>>
    ELSE IF s[1] = " " THEN SplitWords(Tail(s))
    ELSE LET sp == Find(s, " ")
         IN  IF sp = 0 THEN <<s>>
             ELSE <<SubSeq(s, 1, sp - 1)>> \o SplitWords(SubSeq(s, sp + 1, Len(s)))

\* concatenation of a sequence of texts
RECURSIVE Concat(_)
Concat(parts) == IF parts = <<>> THEN <<>> ELSE Head(parts) \o Concat(Tail(parts))

\* int(text): defined only for a non-empty digit string
IsInt(s) == s # Null /\ s # <<>> /\ \A i \in DOMAIN s : s[i] \in DigitChars

RECURSIVE ParseInt(_)
ParseInt(s) ==
    IF s = <<>> THEN 0
    ELSE 10 * ParseInt(SubSeq(s, 1, Len(s) - 1)) + (IndexIn(s[Len(s)], Digits) - 1)

\* str(n) for n >= 0
RECURSIVE FormatInt(_)
FormatInt(n) == IF n < 10 THEN <<Digits[n + 1]>> ELSE FormatInt(n \div 10) \o <<Digits[(n % 10) + 1]>>

(***************************************************************************)
(* Texts used as inputs.                                                   *)
(***************************************************************************)
T_smith_j == <<"S","m","i","t","h",","," ","J",".">>

T_deep_nets == <<"D","e","e","p"," ","N","e","t","s">>

T_the_deep_end == <<"T","h","e"," ","{","D","}","e","e","p"," ","E","n","d">>

T_wide_nets == <<"W","i","d","e"," ","N","e","t","s">>

T_2020 == <<"2","0","2","0">>

T_jmlr == <<"J","M","L","R">>

T_acl == <<"A","C","L">>

T_unknown == <<"U","N","K","N","O","W","N">>

T_none == <<"N","o","n","e">>

K_smith20 == <<"s","m","i","t","h","2","0">>

K_smith20b == <<"s","m","i","t","h","2","0","b">>

\* a primary key that reads like a generated custom key (an entry exported
\* with its custom key and imported again)
K_smith2020_deep == <<"s","m","i","t","h","2","0","2","0",":","d","e","e","p">>

K_zz == <<"z","z">>

K_ghost == <<"g","h","o","s","t">>

(***************************************************************************)
(* Entries (pybtex.Entry): an entry key and a field table; a field that is *)
(* absent holds Null.                                                      *)
(***************************************************************************)
Fields(author, title, journal, booktitle, year) ==
    [author |-> author, title |-> title, journal |-> journal,
     booktitle |-> booktitle, year |-> year, original_key |-> Null]

MkEntry(key, fields) == [key |-> key, fields |-> fields]

E_smith20 == MkEntry(K_smith20, Fields(T_smith_j, T_deep_nets, T_jmlr, Null, T_2020))

E_smith20b == MkEntry(K_smith20b, Fields(T_smith_j, T_the_deep_end, Null, T_acl, T_2020))

E_clash == MkEntry(K_smith2020_deep, Fields(T_smith_j, T_deep_nets, T_jmlr, Null, T_2020))

E_nokey == MkEntry(<<>>, Fields(T_smith_j, T_deep_nets, T_jmlr, Null, T_2020))

\* the entry Smith, John: Deep Wide Networks (2020) under a given key
JohnEntry(key) ==
    MkEntry(key, Fields(<<"S","m","i","t","h",","," ","J","o","h","n">>,
                        <<"D","e","e","p"," ","W","i","d","e"," ","N","e","t","w","o","r","k","s">>,
                        T_jmlr, Null, T_2020))

\* an entry without a year: generate_custom_key raises on it
K_noyear == <<"n","o","y","e","a","r">>

E_noyear == MkEntry(K_noyear, Fields(T_smith_j, T_deep_nets, T_jmlr, Null, Null))

\* the entries a caller hands to add
AddInputs == {E_smith20, E_smith20b, E_clash, E_nokey}

(***************************************************************************)
(* bibutils: conversions between entries and text.                         *)
(***************************************************************************)
\* single_entry_to_fulltext: the BibTeX text of the entry, written under
\* overwrite_key when that is given and non-empty.  The text is kept as the
\* structure the BibTeX parser reads back from it.
single_entry_to_fulltext(entry, overwrite_key) ==
    LET effective_key == IF overwrite_key = Null \/ overwrite_key = <<>>
                         THEN entry.key ELSE overwrite_key
    IN  [bibkey |-> effective_key, fields |-> entry.fields]

\* fulltext_to_single_entry: parse the text back into an entry
fulltext_to_single_entry(fulltext) == MkEntry(fulltext.bibkey, fulltext.fields)

\* field_to_unicode: the field as plain text (TeX grouping braces removed),
\* empty when the field is absent
field_to_unicode(entry, field) ==
    IF entry.fields[field] = Null THEN <<>>
    ELSE SelectSeq(entry.fields[field], LAMBDA c : c \notin {"{", "}"})

\* parse_names + pretty("{last}") for the first author: the text before the
\* comma of "Last, First", else the last word of "First Last"
Surname(author) ==
    LET words == SplitWords(author)
        andAt == IF \E i \in DOMAIN words : words[i] = <<"a","n","d">>
                 THEN CHOOSE i \in DOMAIN words : words[i] = <<"a","n","d">>
                          /\ \A j \in 1..(i-1) : words[j] # <<"a","n","d">>
                 ELSE Len(words) + 1
        first == SubSeq(words, 1, andAt - 1)
        comma == IF \E i \in DOMAIN first : first[i][Len(first[i])] = ","
                 THEN CHOOSE i \in DOMAIN first : first[i][Len(first[i])] = ","
                          /\ \A j \in 1..(i-1) : first[j][Len(first[j])] # ","
                 ELSE 0
    IN  IF first = <<>> THEN <<>>
        ELSE IF comma = 0 THEN first[Len(first)]
        ELSE first[comma]

NumAuthors(author) ==
    1 + Cardinality({i \in DOMAIN SplitWords(author) : SplitWords(author)[i] = <<"a","n","d">>})

(***************************************************************************)
(* Custom key generation.                                                  *)
(***************************************************************************)
\* (the table without its backquote, which a string of this notation cannot
\* hold and no input text contains)
custom_key_skip_chars ==
    {" ","~","!","@","#","$","%","^","&","*","(",")","+","=","[","]",
     "{","}","|","\\","'","\"",":",";",",","<",".",">","/","?"}

\* the English stop words that occur in the input texts
custom_key_skip_words ==
    {<<"t","h","e">>, <<"a">>, <<"o","f">>, <<"o","n">>, <<"i","n">>}

\* Config.defaults["bibsearch"]["custom_key_format"]
\* a template with the two-digit year and an underscore
custom_key_format_short == <<"{surname}", "{short_year}", "{suffix}", "_", "{title}">>

custom_key_format == <<"{surname}", "{year}", "{suffix}", ":", "{title}">>

\* str.translate(custom_key_skip_chars)
StripSkipChars(s) == SelectSeq(s, LAMBDA c : c \notin custom_key_skip_chars)

\* the exceptions generate_custom_key can raise: int() of a missing or
\* non-numeric year, a missing author or title, title[0] of an empty title
generate_custom_key_raises(entry) ==
    \/ ~IsInt(entry.fields.year)
    \/ entry.fields.author = Null
    \/ entry.fields.title = Null
    \/ entry.fields.title = <<>>

TitleWord(title) ==
    LET lowered == [i \in DOMAIN SplitWords(title) |-> Lower(SplitWords(title)[i])]
        filtered_title == SelectSeq(lowered, LAMBDA w : w \notin custom_key_skip_words)
    IN  StripSkipChars(IF filtered_title # <<>> THEN filtered_title[1] ELSE <<title[1]>>)

\* suffix of attempt n: '' for 0, else chr(ord('a') + n - 1)
\* Suffix counting the letters from the first retry at 'b'
Suffix_from_b(suffix_level) == IF suffix_level = 0 THEN <<>> ELSE <<LowerAlpha[suffix_level + 1]>>

Suffix(suffix_level) == IF suffix_level = 0 THEN <<>> ELSE <<LowerAlpha[suffix_level]>>

FormatPiece(piece, entry, suffix_level) ==
    LET year == ParseInt(entry.fields.year)
    IN  CASE piece = "{surname}" -> StripSkipChars(Lower(Surname(entry.fields.author)))
          [] piece = "{et_al}" -> IF NumAuthors(entry.fields.author) > 1
                                  THEN <<"_","e","t","A","l">> ELSE <<>>
          [] piece = "{year}" -> FormatInt(year)
          [] piece = "{short_year}" -> FormatInt(year % 100)
          [] piece = "{suffix}" -> Suffix(suffix_level)
          [] piece = "{title}" -> TitleWord(entry.fields.title)
          [] OTHER -> <<piece>>

generate_custom_key(entry, format, suffix_level) ==
    Concat([i \in DOMAIN format |-> FormatPiece(format[i], entry, suffix_level)])

(***************************************************************************)
(* The bib table and its fts5 mirror.                                      *)
(*                                                                         *)
(* A table is a function from rowid to row.  The mirror is the set of      *)
(* index entries <<rowid, column, tokens>> that the triggers have written. *)
(***************************************************************************)
IndexedColumns == {"key", "custom_key", "author", "title", "venue", "year"}

NoRows == [r \in {} |-> {}]

NextRowid(b) == IF DOMAIN b = {} THEN 1 ELSE Max(DOMAIN b) + 1

IsAlnum(c) == c \in AlnumChars

\* the fts5 default tokenizer: maximal runs of letters and digits, lower-cased
\* (word is the run being read, done the tokens read so far)
RECURSIVE TokenizeFrom(_, _, _, _)
TokenizeFrom(s, i, word, done) ==
    IF i > Len(s) THEN (IF word = <<>> THEN done ELSE Append(done, word))
    ELSE IF IsAlnum(s[i]) THEN TokenizeFrom(s, i + 1, Append(word, LowerChar(s[i])), done)
    ELSE TokenizeFrom(s, i + 1, <<>>, IF word = <<>> THEN done ELSE Append(done, word))

Tokenize(s) == IF s = Null THEN <<>> ELSE TokenizeFrom(s, 1, <<>>, <<>>)

IndexEntries(rowid, row) == {<<rowid, c, Tokenize(row[c])>> : c \in IndexedColumns}

\* CREATE TRIGGER bib_ai AFTER INSERT ON bib
bib_ai(index, rowid, new) == index \cup IndexEntries(rowid, new)

\* CREATE TRIGGER bib_ad AFTER DELETE ON bib
bib_ad(index, rowid, old) == index \ IndexEntries(rowid, old)

\* bibindex_au without the delete of the old values
bibindex_au_insert_only(index, rowid, old, new) == index \cup IndexEntries(rowid, new)

\* CREATE TRIGGER bibindex_au AFTER UPDATE ON bib
bibindex_au(index, rowid, old, new) ==
    (index \ IndexEntries(rowid, old)) \cup IndexEntries(rowid, new)

\* UniqueError with the constraints enforced for new rows only
UniqueError_new_rows_only(b, rowid, key, custom_key) ==
    IF rowid \in DOMAIN b THEN "none"
    ELSE IF custom_key # Null /\ \E r \in DOMAIN b : b[r].custom_key = custom_key
        THEN "bib.custom_key"
    ELSE IF key # Null /\ \E r \in DOMAIN b : b[r].key = key
        THEN "bib.key"
    ELSE "none"

\* UniqueError without the UNIQUE constraint on custom_key
UniqueError_key_only(b, rowid, key, custom_key) ==
    IF key # Null /\ \E r \in DOMAIN b \ {rowid} : b[r].key = key
        THEN "bib.key"
    ELSE "none"

\* The UNIQUE constraints of table bib, as sqlite reports them for a row
\* written at rowid: a NULL never collides; when both columns collide the
\* engine names custom_key (it checks the index created last first).
UniqueError(b, rowid, key, custom_key) ==
    IF custom_key # Null /\ \E r \in DOMAIN b \ {rowid} : b[r].custom_key = custom_key
        THEN "bib.custom_key"
    ELSE IF key # Null /\ \E r \in DOMAIN b \ {rowid} : b[r].key = key
        THEN "bib.key"
    ELSE "none"

\* the database seen through one connection: table, mirror
Db(b, index) == [bib |-> b, bibindex |-> index]

\* INSERT INTO bib ... : the row is stored at a fresh rowid and bib_ai fires
sql_insert(db, fts, row) ==
    LET rowid == NextRowid(db.bib)
    IN  Db([r \in DOMAIN db.bib \cup {rowid} |-> IF r = rowid THEN row ELSE db.bib[r]],
           IF fts THEN bib_ai(db.bibindex, rowid, row) ELSE db.bibindex)

\* DELETE FROM bib WHERE key=? or custom_key=? : bib_ad fires for each row
RECURSIVE DeleteFromIndex(_, _, _)
DeleteFromIndex(index, b, rowids) ==
    IF rowids = {} THEN index
    ELSE LET r == CHOOSE x \in rowids : TRUE
         IN  DeleteFromIndex(bib_ad(index, r, b[r]), b, rowids \ {r})

sql_delete(db, fts, key) ==
    LET hit == {r \in DOMAIN db.bib : db.bib[r].key = key \/ db.bib[r].custom_key = key}
    IN  Db([r \in DOMAIN db.bib \ hit |-> db.bib[r]],
           IF fts THEN DeleteFromIndex(db.bibindex, db.bib, hit) ELSE db.bibindex)

\* UPDATE bib SET ... WHERE key=? for the row at rowid: bibindex_au fires
sql_update(db, fts, rowid, new) ==
    Db([db.bib EXCEPT ![rowid] = new],
       IF fts THEN bibindex_au(db.bibindex, rowid, db.bib[rowid], new) ELSE db.bibindex)

\* rowids of the rows WHERE key = original_key (at most one, key is UNIQUE)
RowsWithKey(b, original_key) == {r \in DOMAIN b : b[r].key = original_key}

(***************************************************************************)
(* BibDB.add, one pass of its while loop.                                  *)
(***************************************************************************)
\* custom_key_tries < 27
MaxCustomKeyTries == 27

\* lines 215-226: the entry as add prepares it before the loop
PrepareEntry(e) ==
    [e EXCEPT !.fields.author = IF e.fields.author = Null \/ e.fields.author = <<>>
                                THEN T_unknown ELSE e.fields.author,
              !.fields.original_key = e.key]

\* the venue column: journal, else booktitle
Venue(e) ==
    IF field_to_unicode(e, "journal") # <<>> THEN field_to_unicode(e, "journal")
    ELSE field_to_unicode(e, "booktitle")

\* str(entry.fields.get("year"))
YearText(e) == IF e.fields.year = Null THEN T_none ELSE e.fields.year

\* CandidateKey that generates for 26 attempts only
CandidateKey_26(e, tries) ==
    IF tries < 26
    THEN IF generate_custom_key_raises(e) THEN Null
         ELSE generate_custom_key(e, custom_key_format, tries)
    ELSE e.key

\* lines 230-238: the custom key tried in this pass
CandidateKey(e, tries) ==
    IF tries < MaxCustomKeyTries
    THEN IF generate_custom_key_raises(e) THEN Null
         ELSE generate_custom_key(e, custom_key_format, tries)
    ELSE e.key

\* the row add inserts for entry e under custom_key
AddRow(e, custom_key) ==
    [key |-> e.key, custom_key |-> custom_key,
     author |-> field_to_unicode(e, "author"),
     title |-> field_to_unicode(e, "title"),
     venue |-> Venue(e),
     year |-> YearText(e),
     fulltext |-> single_entry_to_fulltext(e, custom_key)]

\* lines 239-263: the INSERT of one pass and what the loop does next
add_attempt(db, fts, e, tries) ==
    LET custom_key == CandidateKey(e, tries)
        err == UniqueError(db.bib, 0, e.key, custom_key)
    IN  IF err = "none"
        THEN [db |-> sql_insert(db, fts, AddRow(e, custom_key)), next |-> "added"]
        ELSE IF err = "bib.custom_key" THEN [db |-> db, next |-> "retry"]
        ELSE [db |-> db, next |-> "duplicate"]

(***************************************************************************)
(* Query translation and the two query engines.                            *)
(***************************************************************************)
column_names_no_key == <<"author", "title", "venue", "year">>

\* column names as text
ColumnText(c) ==
    CASE c = "author" -> <<"a","u","t","h","o","r">>
      [] c = "title" -> <<"t","i","t","l","e">>
      [] c = "venue" -> <<"v","e","n","u","e">>
      [] c = "year" -> <<"y","e","a","r">>
      [] c = "key" -> <<"k","e","y">>
      [] c = "custom_key" -> <<"c","u","s","t","o","m","_","k","e","y">>

T_and == <<" ","A","N","D"," ">>

T_or == <<" ","O","R"," ">>

\* config.macros: macro name -> trusted sub-expression (the table cut down to
\* one macro, its venue the venue of the input entries)
M_cl == <<"@","c","l">>

macros == [m \in {M_cl} |-> <<"v","e","n","u","e",":","\"","A","C","L","\"">>]

Quote(s) == <<"\"">> \o s \o <<"\"">>

\* sep.join(parts)
RECURSIVE Join(_, _)
Join(parts, sep) ==
    IF parts = <<>> THEN <<>>
    ELSE IF Len(parts) = 1 THEN parts[1]
    ELSE parts[1] \o sep \o Join(Tail(parts), sep)

\* the outcome of translating one term: raised, or the text produced
Raised == [ok |-> FALSE, text |-> <<>>]

Produced(text) == [ok |-> TRUE, text |-> text]

\* _format_query_fts, the body of its loop for one term t
FormatTermFts(t) ==
    IF t \in DOMAIN macros THEN Produced(macros[t])
    ELSE IF ~(\/ StartsWith(t, ColumnText("author") \o <<":">>)
              \/ StartsWith(t, ColumnText("key") \o <<":">>)
              \/ StartsWith(t, ColumnText("title") \o <<":">>)
              \/ StartsWith(t, ColumnText("venue") \o <<":">>)
              \/ StartsWith(t, ColumnText("year")))
    THEN IF t = <<>> THEN Raised                      \* current_term[0]: IndexError
         ELSE IF t[1] # "\"" /\ t[Len(t)] # "\"" THEN Produced(Quote(t))
         ELSE Produced(t)
    ELSE IF Find(t, ":") = 0 THEN Raised              \* split(":", 1) yields one part: ValueError
    ELSE LET specifier == SubSeq(t, 1, Find(t, ":") - 1)
             query == SubSeq(t, Find(t, ":") + 1, Len(t))
         IN  IF query = <<>> THEN Raised              \* query[0]: IndexError
             ELSE LET quoted_query == IF query[1] = "\"" /\ query[Len(query)] = "\""
                                      THEN query ELSE Quote(query)
                  IN  IF specifier = ColumnText("key")
                      THEN Produced(<<"(">> \o ColumnText("key") \o <<":">> \o quoted_query
                                    \o T_or \o ColumnText("custom_key") \o <<":">>
                                    \o quoted_query \o <<")">>)
                      ELSE Produced(specifier \o <<":">> \o quoted_query)

\* a translator that joins the terms with OR
_format_query_fts_or(query_terms) ==
    LET processed == [i \in DOMAIN query_terms |-> FormatTermFts(query_terms[i])]
    IN  IF \E i \in DOMAIN processed : ~processed[i].ok THEN Raised
        ELSE Produced(Join([i \in DOMAIN processed |-> processed[i].text], T_or))

_format_query_fts(query_terms) ==
    LET processed == [i \in DOMAIN query_terms |-> FormatTermFts(query_terms[i])]
    IN  IF \E i \in DOMAIN processed : ~processed[i].ok THEN Raised
        ELSE Produced(Join([i \in DOMAIN processed |-> processed[i].text], T_and))

\* _format_query_no_fts: per term the columns compared with LIKE (OR-ed), the
\* clauses are AND-ed; one bound value per comparison
FormatTermNoFts(t) ==
    IF ~\E c \in Range(column_names_no_key) \cup {"key"} : StartsWith(t, ColumnText(c) \o <<":">>)
    THEN [columns |-> column_names_no_key \o <<"key", "custom_key">>,
          values |-> [i \in 1..6 |-> <<"%">> \o t \o <<"%">>]]
    ELSE LET specifier == SubSeq(t, 1, Find(t, ":") - 1)
             wildquery == <<"%">> \o SubSeq(t, Find(t, ":") + 1, Len(t)) \o <<"%">>
         IN  IF specifier = ColumnText("key")
             THEN [columns |-> <<"key", "custom_key">>, values |-> <<wildquery, wildquery>>]
             ELSE [columns |-> <<CHOOSE c \in Range(column_names_no_key) : ColumnText(c) = specifier>>,
                   values |-> <<wildquery>>]

_format_query_no_fts(input_terms) == [i \in DOMAIN input_terms |-> FormatTermNoFts(input_terms[i])]

\* '(%s LIKE ?)' % c
LikeClause(c) == <<"(">> \o c \o <<" ","L","I","K","E"," ","?",")">>

\* a translator that writes the value of the term into the predicate
WhereTermNoFts_interpolated(t) ==
    <<"(">> \o SubSeq(t, 1, Find(t, ":") - 1) \o <<" ","L","I","K","E"," ","'","%">>
            \o SubSeq(t, Find(t, ":") + 1, Len(t)) \o <<"%","'",")">>

\* _format_query_no_fts: the text appended to query_terms for one term
WhereTermNoFts(t) ==
    IF ~\E c \in Range(column_names_no_key) \cup {"key"} : StartsWith(t, ColumnText(c) \o <<":">>)
    THEN LET cs == column_names_no_key \o <<"key", "custom_key">>
         IN  <<"(">> \o Join([i \in DOMAIN cs |-> LikeClause(ColumnText(cs[i]))], T_or) \o <<")">>
    ELSE LET specifier == SubSeq(t, 1, Find(t, ":") - 1)
         IN  IF specifier = ColumnText("key")
             THEN <<"(">> \o LikeClause(ColumnText("key")) \o T_or
                          \o LikeClause(ColumnText("custom_key")) \o <<")">>
             ELSE LikeClause(specifier)

\* the predicate string _format_query_no_fts returns
where_clause(input_terms) ==
    Join([i \in DOMAIN input_terms |-> WhereTermNoFts(input_terms[i])], T_and)

\* s LIKE pattern: % any run, _ any one character, letters compared without case
RECURSIVE Like(_, _)
Like(s, pattern) ==
    IF pattern = <<>> THEN s = <<>>
    ELSE IF pattern[1] = "%" THEN Like(s, Tail(pattern)) \/ (s # <<>> /\ Like(Tail(s), pattern))
    ELSE IF s = <<>> THEN FALSE
    ELSE IF pattern[1] = "_" THEN Like(Tail(s), Tail(pattern))
    ELSE LowerChar(s[1]) = LowerChar(pattern[1]) /\ Like(Tail(s), Tail(pattern))

\* the WHERE clause on one row: a NULL column matches no pattern
WhereHolds(row, clauses) ==
    \A i \in DOMAIN clauses :
        \E j \in DOMAIN clauses[i].columns :
            /\ row[clauses[i].columns[j]] # Null
            /\ Like(row[clauses[i].columns[j]], clauses[i].values[j])

\* split at the separators that lie outside double quotes and parentheses
SplitOuter(s, sep) ==
    LET quotes(i) == Cardinality({k \in 1..i : s[k] = "\""})
        unquoted(i) == {j \in 1..(i - 1) : quotes(j) % 2 = 0}
        outside(i) ==
            /\ quotes(i - 1) % 2 = 0
            /\ Cardinality({j \in unquoted(i) : s[j] = "("})
                   = Cardinality({j \in unquoted(i) : s[j] = ")"})
        at == {i \in 1..(Len(s) - Len(sep) + 1) :
                  SubSeq(s, i, i + Len(sep) - 1) = sep /\ outside(i)}
        nth(k) == IF k > Cardinality(at) THEN Len(s) + 1
                  ELSE CHOOSE p \in at : Cardinality({q \in at : q < p}) = k - 1
    IN  [k \in 1..(Cardinality(at) + 1) |->
            SubSeq(s, IF k = 1 THEN 1 ELSE nth(k - 1) + Len(sep), nth(k) - 1)]

IsQuoted(a) ==
    /\ Len(a) >= 2
    /\ a[1] = "\"" /\ a[Len(a)] = "\""
    /\ \A i \in 2..(Len(a) - 1) : a[i] # "\""

IsBareword(a) == a # <<>> /\ \A i \in DOMAIN a : IsAlnum(a[i]) \/ a[i] = "_"

\* tokens occur as a contiguous run of toks
HasPhrase(toks, phrase) ==
    /\ phrase # <<>>
    /\ \E i \in 1..(Len(toks) - Len(phrase) + 1) : SubSeq(toks, i, i + Len(phrase) - 1) = phrase

PhraseRows(index, columns, phrase) ==
    {e[1] : e \in {x \in index : x[2] \in columns /\ HasPhrase(x[3], Tokenize(phrase))}}

Fts5Error == [ok |-> FALSE, rowids |-> {}]

Fts5Rows(rowids) == [ok |-> TRUE, rowids |-> rowids]

\* one fts5 primary: "phrase", bareword, or column:"phrase"
Fts5Primary(index, a) ==
    IF IsQuoted(a) THEN Fts5Rows(PhraseRows(index, IndexedColumns, SubSeq(a, 2, Len(a) - 1)))
    ELSE IF IsBareword(a) THEN Fts5Rows(PhraseRows(index, IndexedColumns, a))
    ELSE LET colon == Find(a, ":")
             column == SubSeq(a, 1, colon - 1)
             rest == SubSeq(a, colon + 1, Len(a))
         IN  IF colon = 0 \/ ~IsBareword(column) \/ ~(IsQuoted(rest) \/ IsBareword(rest)) THEN Fts5Error
             ELSE IF ~\E c \in IndexedColumns : ColumnText(c) = Lower(column) THEN Fts5Error
             ELSE Fts5Rows(PhraseRows(index,
                                      {c \in IndexedColumns : ColumnText(c) = Lower(column)},
                                      IF IsQuoted(rest) THEN SubSeq(rest, 2, Len(rest) - 1) ELSE rest))

\* one conjunct: a primary or a parenthesised OR of primaries
Fts5Conjunct(index, a) ==
    IF Len(a) >= 2 /\ a[1] = "(" /\ a[Len(a)] = ")"
    THEN LET parts == SplitOuter(SubSeq(a, 2, Len(a) - 1), T_or)
             rs == [i \in DOMAIN parts |-> Fts5Primary(index, parts[i])]
         IN  IF \E i \in DOMAIN rs : ~rs[i].ok THEN Fts5Error
             ELSE Fts5Rows(UNION {rs[i].rowids : i \in DOMAIN rs})
    ELSE Fts5Primary(index, a)

\* a run of conjuncts joined by AND: the rowids that satisfy every conjunct
Fts5And(index, expr) ==
    LET rs == {Fts5Conjunct(index, part) : part \in Range(SplitOuter(expr, T_and))}
    IN  IF \E r \in rs : ~r.ok THEN Fts5Error
        ELSE Fts5Rows({x \in UNION {r.rowids : r \in rs} : \A r \in rs : x \in r.rowids})

\* bibindex MATCH expr: OR binds weaker than AND, so the expression is an OR
\* of AND-runs
Fts5Match(index, expr) ==
    LET rs == {Fts5And(index, part) : part \in Range(SplitOuter(expr, T_or))}
    IN  IF \E r \in rs : ~r.ok THEN Fts5Error
        ELSE Fts5Rows(UNION {r.rowids : r \in rs})

\* the elements of a set of rowids in ascending order
RECURSIVE Ascending(_)
Ascending(S) ==
    IF S = {} THEN <<>>
    ELSE LET m == CHOOSE x \in S : \A y \in S : x <= y
         IN  <<m>> \o Ascending(S \ {m})

\* SELECT fulltext, key ... : the selected columns of the rows, by rowid;
\* the mirror has no content of its own and reads the columns from bib
SelectRows(b, rowids) ==
    [i \in DOMAIN Ascending(rowids) |->
        LET r == Ascending(rowids)[i]
        IN  IF r \in DOMAIN b THEN <<b[r].fulltext, b[r].key>> ELSE <<Null, Null>>]

\* the statement BibDB.search executes: raised, or the list of result rows
Executed(rows) == [ok |-> TRUE, rows |-> rows]

ExecuteRaised == [ok |-> FALSE, rows |-> <<>>]

SearchFts(db, query) ==
    LET expr == _format_query_fts(query)
        hit == Fts5Match(db.bibindex, expr.text)
    IN  IF ~expr.ok \/ ~hit.ok THEN ExecuteRaised
        ELSE Executed(SelectRows(db.bib, hit.rowids))

\* SearchNoFts that refuses to answer without the index
SearchNoFts_unsupported(db, query) == ExecuteRaised

SearchNoFts(db, query) ==
    LET clauses == _format_query_no_fts(query)
    IN  IF clauses = <<>> THEN ExecuteRaised           \* "... WHERE " : incomplete input
        ELSE Executed(SelectRows(db.bib, {r \in DOMAIN db.bib : WhereHolds(db.bib[r], clauses)}))

\* the search cache file lastSearch.yml
NoCacheFile == [exists |-> FALSE, doc |-> <<>>]

\* yaml.dump of a list of tuples
yaml_dump(results) == [i \in DOMAIN results |-> [tag |-> "python/tuple", items |-> results[i]]]

\* yaml.load
yaml_load(doc) == [i \in DOMAIN doc |-> doc[i].items]

\* save_to_search_cache that writes no file for an empty result
save_to_search_cache_unless_empty(search) ==
    IF search = <<>> THEN NoCacheFile ELSE [exists |-> TRUE, doc |-> yaml_dump(search)]

save_to_search_cache(search) == [exists |-> TRUE, doc |-> yaml_dump(search)]

(***************************************************************************)
(* State.                                                                  *)
(***************************************************************************)
VARIABLES
    bib,               \* table bib as the open connection sees it
    bibindex,          \* the fts5 mirror as the open connection sees it
    has_fts,           \* self.has_fts
    disk,              \* the committed content of bib.db: [bib, bibindex]
    search_cache,      \* the file lastSearch.yml
    pc,                \* "idle", "add" (inside the while loop of add), "exited"
    entry,             \* add: the entry being inserted
    custom_key_tries,  \* add: custom_key_tries
    result,            \* what the last finished call returned or raised
    downloaded_files,  \* table downloaded_files as the open connection sees it
    committed_files    \* the committed content of table downloaded_files

vars == <<bib, bibindex, has_fts, disk, search_cache, pc, entry, custom_key_tries, result,
         downloaded_files, committed_files>>

NoEntry == MkEntry(<<>>, Fields(Null, Null, Null, Null, Null))

\* op: the call; arg: its arguments where a property needs them; status: how
\* it ended; rows: the list search returned
Result(op, arg, status, rows) == [op |-> op, arg |-> arg, status |-> status, rows |-> rows]

NoArg == <<>>

(***************************************************************************)
(* The stores a process can find when it opens bib.db.                     *)
(***************************************************************************)
\* the n-th entry of a file of entries that all produce the same base key
SeedEntry(i) == MkEntry(<<"s">> \o FormatInt(i), E_smith20.fields)

\* the row add stores for the i-th seed entry: its first i-1 candidate keys
\* are held by the seed entries added before it
SeedRow(i) ==
    AddRow(PrepareEntry(SeedEntry(i)), CandidateKey(PrepareEntry(SeedEntry(i)), i - 1))

\* the database after the first n seed entries were added and saved
Seeded(n, fts) ==
    Db([r \in 1..n |-> SeedRow(r)],
       IF fts THEN UNION {IndexEntries(r, SeedRow(r)) : r \in 1..n} ELSE {})

\* sizes of the store found at start: empty, and one that has used up every
\* suffix of the base key
SeedSizes == {0, MaxCustomKeyTries}

(***************************************************************************)
(* Inputs of the calls.                                                    *)
(***************************************************************************)
RemoveKeys == {K_smith20, K_smith2020_deep}

\* update: the records the edit command is run on, and what the user does
\* to the text in the editor (new entry key; new title, Null for unchanged)
EditKeys == {K_smith20, K_ghost}

Edits == {[key |-> K_zz, title |-> T_wide_nets],
          [key |-> K_smith2020_deep, title |-> Null],
          [key |-> <<>>, title |-> Null]}

\* the entries the edit command can hand to update: the stored text of the
\* record (or, for a record that is gone, the text as shown before), edited
EditedEntries ==
    {LET live == RowsWithKey(bib, ok)
         base == IF live = {} THEN PrepareEntry(E_smith20)
                 ELSE fulltext_to_single_entry(bib[CHOOSE r \in live : TRUE].fulltext)
     IN  MkEntry(ed.key, [base.fields EXCEPT !.original_key = ok,
                                             !.title = IF ed.title = Null THEN @ ELSE ed.title])
       : ok \in EditKeys, ed \in Edits}

\* update_custom_key: the records renamed and the new keys asked for
RenameKeys == {K_smith20b, K_ghost}

NewKeys == {K_zz}

Q_deep == << <<"d","e","e","p">> >>

Q_title_wide == << <<"t","i","t","l","e",":","w","i","d","e">> >>

Q_key_ghost == << <<"k","e","y",":","g","h","o","s","t">> >>

Queries == {<<>>, Q_deep, Q_title_wide, Q_key_ghost}

Q_title_deep == << <<"t","i","t","l","e",":","d","e","e","p">> >>

\* a title-qualified term whose value is the beginning of a word
Q_title_dee == << <<"t","i","t","l","e",":","d","e","e">> >>

\* a term whose field is no column of the table
Q_pub_acl == << <<"p","u","b",":","a","c","l">> >>

\* search_key: the keys looked up
LookupKeys == {K_smith20, K_smith2020_deep, K_ghost}

\* _add_file: a URL source and a local file
F_url == <<"h","t","t","p",":","/","/","x">>

F_url2 == <<"h","t","t","p",":","/","/","y">>

F_local == <<"x",".","b","i","b">>

T_http == <<"h","t","t","p">>

\* what download_file and the BibTeX parser give for a source: an error, or
\* the entries of the file (none or one)
Fetched(error, entries) == [error |-> error, entries |-> entries]

Fetches ==
    {Fetched("URLError", <<>>), Fetched("PybtexError", <<>>),
     Fetched("none", <<>>), Fetched("none", <<E_smith20>>)}

(***************************************************************************)
(* Terms of the command line, by name.                                     *)
(***************************************************************************)
Term ==
    [\* a plain word
     deep |-> <<"d","e","e","p">>,
     \* a word that begins with the letters year
     yearly |-> <<"y","e","a","r","l","y">>,
     \* a quote character at the start only
     open_quote |-> <<"\"","d","e","e","p">>,
     \* a quote character at the end only
     close_quote |-> <<"d","e","e","p","\"">>,
     \* a phrase the user has quoted
     phrase |-> <<"\"","d","e","e","p"," ","n","e","t","s","\"">>,
     \* field-qualified terms
     title_deep |-> <<"t","i","t","l","e",":","d","e","e","p">>,
     title_star |-> <<"t","i","t","l","e",":","d","*","p">>,
     key_zz |-> <<"k","e","y",":","z","z">>,
     year_2020 |-> <<"y","e","a","r",":","2","0","2","0">>,
     \* a field that is no column
     pub_acl |-> <<"p","u","b",":","a","c","l">>,
     \* words of the author, venue and title columns
     smith |-> <<"s","m","i","t","h">>,
     acl |-> <<"a","c","l">>,
     nets |-> <<"n","e","t","s">>,
     \* an expression of the full-text engine, quoted at both ends
     nets_or_end |-> <<"\"","n","e","t","s","\""," ","O","R"," ","\"","e","n","d","\"">>,
     \* positions in the search cache
     n0 |-> <<"0">>,
     n1 |-> <<"1">>,
     n2 |-> <<"2">>,
     n3 |-> <<"3">>]

\* the term lists S and T that are searched alone and joined
ConjunctionQueries ==
    LET terms == {Term.smith, Term.acl, Term.nets, Term.nets_or_end}
    IN  {<<t>> : t \in terms} \cup {<<t, u>> : t, u \in terms}

\* _get_cache_or_search_result: the term lists of the open and edit commands
CacheTerms == {<<>>, <<Term.n0>>, <<Term.n1>>, <<Term.n2>>, <<Term.n3>>, <<Term.smith>>}

\* the term lists translated: one term, or two
TranslatorQueries ==
    LET terms == {Term.deep, Term.yearly, Term.open_quote, Term.close_quote, Term.phrase, M_cl,
                  Term.title_deep, Term.title_star, Term.key_zz, Term.year_2020, Term.pub_acl}
    IN  {<<t>> : t \in terms} \cup {<<t, u>> : t, u \in terms}

(***************************************************************************)
(* BibDB.__init__ on an existing bib.db, in a fresh process.               *)
(***************************************************************************)
InitWith(sizes) ==
    \E fts \in BOOLEAN, n \in sizes :
        /\ has_fts = fts
        /\ disk = Seeded(n, fts)
        /\ bib = disk.bib
        /\ bibindex = disk.bibindex
        /\ search_cache = NoCacheFile
        /\ pc = "idle"
        /\ entry = NoEntry
        /\ custom_key_tries = 0
        /\ result = Result("init", NoArg, "ok", <<>>)
        /\ downloaded_files = <<>>
        /\ committed_files = <<>>

Init == InitWith(SeedSizes)

\* the process ends (killed, crashed or exited) and the store is opened
\* again: uncommitted work of the old connection is gone
restart ==
    /\ bib' = disk.bib
    /\ bibindex' = disk.bibindex
    /\ pc' = "idle"
    /\ entry' = NoEntry
    /\ custom_key_tries' = 0
    /\ result' = Result("init", NoArg, "ok", <<>>)
    /\ downloaded_files' = committed_files
    /\ UNCHANGED <<has_fts, disk, search_cache, committed_files>>

(***************************************************************************)
(* BibDB.add.                                                              *)
(***************************************************************************)
\* lines 211-228: up to the entry of the while loop
add_begin(e) ==
    /\ pc = "idle"
    /\ NextRowid(bib) - 1 - Cardinality(DOMAIN bib) <= MaxRowidHoles
    /\ IF e.key = <<>>
       THEN /\ result' = Result("add", NoArg, "rejected", <<>>)
            /\ UNCHANGED <<pc, entry, custom_key_tries>>
       ELSE /\ entry' = PrepareEntry(e)
            /\ custom_key_tries' = 0
            /\ pc' = "add"
            /\ result' = Result("add", NoArg, "running", <<>>)
    /\ UNCHANGED <<bib, bibindex, has_fts, disk, search_cache, downloaded_files, committed_files>>

\* lines 229-264: one pass of the while loop
add_try ==
    /\ pc = "add"
    /\ custom_key_tries <= MaxLoopTries
    /\ LET a == add_attempt(Db(bib, bibindex), has_fts, entry, custom_key_tries)
       IN  /\ bib' = a.db.bib
           /\ bibindex' = a.db.bibindex
           /\ IF a.next = "retry"
              THEN /\ custom_key_tries' = custom_key_tries + 1
                   /\ UNCHANGED <<pc, entry, result>>
              ELSE /\ pc' = "idle"
                   /\ entry' = NoEntry
                   /\ custom_key_tries' = 0
                   /\ result' = Result("add", NoArg, a.next, <<>>)
    /\ UNCHANGED <<has_fts, disk, search_cache, downloaded_files, committed_files>>

(***************************************************************************)
(* BibDB.remove, BibDB.update, BibDB.update_custom_key, BibDB.save.        *)
(***************************************************************************)
\* remove that raises when no row has the key
remove_strict(key) ==
    /\ pc = "idle"
    /\ LET db == sql_delete(Db(bib, bibindex), has_fts, key)
       IN  /\ bib' = db.bib
           /\ bibindex' = db.bibindex
           /\ result' = Result("remove", <<key>>, IF db.bib = bib THEN "raised" ELSE "ok", <<>>)
           /\ pc' = IF db.bib = bib THEN "exited" ELSE pc
    /\ UNCHANGED <<has_fts, disk, search_cache, entry, custom_key_tries,
                   downloaded_files, committed_files>>

\* remove that commits at once
remove_autocommit(key) ==
    /\ pc = "idle"
    /\ LET db == sql_delete(Db(bib, bibindex), has_fts, key)
       IN  /\ bib' = db.bib
           /\ bibindex' = db.bibindex
           /\ disk' = db
    /\ result' = Result("remove", <<key>>, "ok", <<>>)
    /\ UNCHANGED <<has_fts, search_cache, pc, entry, custom_key_tries, downloaded_files, committed_files>>

remove(key) ==
    /\ pc = "idle"
    /\ LET db == sql_delete(Db(bib, bibindex), has_fts, key)
       IN  /\ bib' = db.bib
           /\ bibindex' = db.bibindex
    /\ result' = Result("remove", <<key>>, "ok", <<>>)
    /\ UNCHANGED <<has_fts, disk, search_cache, pc, entry, custom_key_tries, downloaded_files, committed_files>>

\* the row update writes for entry e
\* an UPDATE that also writes the edited key into the key column
UpdateRow_rekey(old, e) ==
    [old EXCEPT !.key = e.key,
                !.custom_key = e.key,
                !.author = field_to_unicode(e, "author"),
                !.title = field_to_unicode(e, "title"),
                !.venue = Venue(e),
                !.year = YearText(e),
                !.fulltext = single_entry_to_fulltext(e, Null)]

UpdateRow(old, e) ==
    [old EXCEPT !.custom_key = e.key,
                !.author = field_to_unicode(e, "author"),
                !.title = field_to_unicode(e, "title"),
                !.venue = Venue(e),
                !.year = YearText(e),
                !.fulltext = single_entry_to_fulltext(e, Null)]

update(e) ==
    /\ pc = "idle"
    /\ IF e.key = <<>>
       THEN /\ result' = Result("update", NoArg, "rejected", <<>>)
            /\ UNCHANGED <<bib, bibindex>>
       ELSE LET hit == RowsWithKey(bib, e.fields.original_key)
            IN  IF hit = {}
                THEN /\ result' = Result("update", <<e.fields.original_key>>, "ok", <<>>)      \* UPDATE of no row
                     /\ UNCHANGED <<bib, bibindex>>
                ELSE LET r == CHOOSE x \in hit : TRUE
                         err == UniqueError(bib, r, bib[r].key, e.key)
                         db == sql_update(Db(bib, bibindex), has_fts, r, UpdateRow(bib[r], e))
                     IN  IF err = "none"
                         THEN /\ bib' = db.bib
                              /\ bibindex' = db.bibindex
                              /\ result' = Result("update", <<e.fields.original_key>>, "ok", <<>>)
                         ELSE /\ result' = Result("update", <<e.fields.original_key>>, "logged:" \o err, <<>>)
                              /\ UNCHANGED <<bib, bibindex>>
    /\ UNCHANGED <<has_fts, disk, search_cache, pc, entry, custom_key_tries, downloaded_files, committed_files>>

\* the row update_custom_key writes
RenameRow(old, new_custom_key) ==
    LET e == [fulltext_to_single_entry(old.fulltext) EXCEPT !.key = new_custom_key]
    IN  [old EXCEPT !.custom_key = new_custom_key,
                    !.fulltext = single_entry_to_fulltext(e, Null)]

update_custom_key(original_key, new_custom_key) ==
    /\ pc = "idle"
    /\ LET hit == RowsWithKey(bib, original_key)
       IN  IF hit = {}
           THEN \* fetchone() is None: TypeError leaves the call
                /\ result' = Result("update_custom_key", <<original_key, new_custom_key>>, "raised", <<>>)
                /\ pc' = "exited"
                /\ UNCHANGED <<bib, bibindex, disk, committed_files>>
           ELSE LET r == CHOOSE x \in hit : TRUE
                    err == UniqueError(bib, r, bib[r].key, new_custom_key)
                    db == sql_update(Db(bib, bibindex), has_fts, r, RenameRow(bib[r], new_custom_key))
                IN  IF err = "none"
                    THEN /\ bib' = db.bib
                         /\ bibindex' = db.bibindex
                         /\ disk' = db                              \* self.save()
                         /\ committed_files' = downloaded_files
                         /\ result' = Result("update_custom_key", <<original_key, new_custom_key>>, "ok", <<>>)
                         /\ UNCHANGED pc
                    ELSE \* logging.error("Key %s already exists ..."); sys.exit(1)
                         /\ result' = Result("update_custom_key", <<original_key, new_custom_key>>, "KeyConflict", <<>>)
                         /\ pc' = "exited"
                         /\ UNCHANGED <<bib, bibindex, disk, committed_files>>
    /\ UNCHANGED <<has_fts, search_cache, entry, custom_key_tries, downloaded_files>>

save ==
    /\ pc = "idle"
    /\ disk' = Db(bib, bibindex)
    /\ committed_files' = downloaded_files
    /\ result' = Result("save", NoArg, "ok", <<>>)
    /\ UNCHANGED <<bib, bibindex, has_fts, search_cache, pc, entry, custom_key_tries, downloaded_files>>

(***************************************************************************)
(* BibDB.search.                                                           *)
(***************************************************************************)
search(query) ==
    /\ pc = "idle"
    /\ LET run == IF has_fts THEN SearchFts(Db(bib, bibindex), query)
                  ELSE SearchNoFts(Db(bib, bibindex), query)
       IN  IF run.ok
           THEN /\ search_cache' = save_to_search_cache(run.rows)
                /\ result' = Result("search", query, "ok", run.rows)
                /\ UNCHANGED pc
           ELSE \* the exception leaves search; no caller catches it
                /\ result' = Result("search", query, "raised", <<>>)
                /\ pc' = "exited"
                /\ UNCHANGED search_cache
    /\ UNCHANGED <<bib, bibindex, has_fts, disk, entry, custom_key_tries, downloaded_files, committed_files>>

(***************************************************************************)
(* BibDB.search_key.                                                       *)
(***************************************************************************)
\* search_key that returns the text as stored
search_key_as_stored(key) ==
    /\ pc = "idle"
    /\ LET hit == {r \in DOMAIN bib : bib[r].key = key \/ bib[r].custom_key = key}
       IN  IF hit = {}
           THEN result' = Result("search_key", <<key>>, "ok", <<>>)
           ELSE \E r \in hit : result' = Result("search_key", <<key>>, "ok", <<bib[r].fulltext>>)
    /\ UNCHANGED <<bib, bibindex, has_fts, disk, search_cache, pc, entry, custom_key_tries,
                   downloaded_files, committed_files>>

\* fetchone() of the rows WHERE key=? OR custom_key=? : any one of them
search_key(key) ==
    /\ pc = "idle"
    /\ LET hit == {r \in DOMAIN bib : bib[r].key = key \/ bib[r].custom_key = key}
       IN  IF hit = {}
           THEN result' = Result("search_key", <<key>>, "ok", <<>>)         \* None
           ELSE \E r \in hit :
                    result' = Result("search_key", <<key>>, "ok",
                                     <<single_entry_to_fulltext(
                                           fulltext_to_single_entry(bib[r].fulltext), key)>>)
    /\ UNCHANGED <<bib, bibindex, has_fts, disk, search_cache, pc, entry, custom_key_tries,
                   downloaded_files, committed_files>>

(***************************************************************************)
(* Table downloaded_files and _add_file.                                   *)
(***************************************************************************)
\* SELECT 1 FROM downloaded_files WHERE file = ? LIMIT 1 ... is not None
HasBeenDownloaded(table, file) == \E i \in DOMAIN table : table[i] = file

\* RegisterFile without the UNIQUE constraint on file
RegisterFile_no_unique(table, file) == Append(table, file)

\* INSERT INTO downloaded_files(file): the UNIQUE constraint refuses a file
\* that is there and the IntegrityError is dropped
RegisterFile(table, file) ==
    IF \E i \in DOMAIN table : table[i] = file THEN table ELSE Append(table, file)

file_has_been_downloaded(file) ==
    /\ pc = "idle"
    /\ result' = Result("file_has_been_downloaded", <<file>>,
                        IF HasBeenDownloaded(downloaded_files, file) THEN "true" ELSE "false", <<>>)
    /\ UNCHANGED <<bib, bibindex, has_fts, disk, search_cache, pc, entry, custom_key_tries,
                   downloaded_files, committed_files>>

\* register_file_downloaded that commits at once
register_file_downloaded_autocommit(file) ==
    /\ pc = "idle"
    /\ downloaded_files' = RegisterFile(downloaded_files, file)
    /\ committed_files' = downloaded_files'
    /\ result' = Result("register_file_downloaded", <<file>>, "ok", <<>>)
    /\ UNCHANGED <<bib, bibindex, has_fts, disk, search_cache, pc, entry, custom_key_tries>>

register_file_downloaded(file) ==
    /\ pc = "idle"
    /\ downloaded_files' = RegisterFile(downloaded_files, file)
    /\ result' = Result("register_file_downloaded", <<file>>, "ok", <<>>)
    /\ UNCHANGED <<bib, bibindex, has_fts, disk, search_cache, pc, entry, custom_key_tries,
                   committed_files>>

\* _add_file up to its loop over the entries; the loop's call of add runs as
\* add_try.  AddFileError is caught by _add, which goes on to the next file.
_add_file(fname, force_redownload, fetched) ==
    /\ pc = "idle"
    /\ LET arg == <<fname, fetched.error>>
           isUrl == StartsWith(fname, T_http)
       IN  IF isUrl /\ ~force_redownload /\ HasBeenDownloaded(downloaded_files, fname)
           THEN /\ result' = Result("_add_file", arg, "file_skipped", <<>>)
                /\ UNCHANGED <<pc, entry, custom_key_tries, downloaded_files>>
           ELSE IF fetched.error # "none"
           THEN /\ result' = Result("_add_file", arg, IF isUrl THEN "AddFileError" ELSE "raised", <<>>)
                /\ pc' = IF isUrl THEN "idle" ELSE "exited"
                /\ UNCHANGED <<entry, custom_key_tries, downloaded_files>>
           ELSE /\ downloaded_files' = IF isUrl THEN RegisterFile(downloaded_files, fname)
                                       ELSE downloaded_files
                /\ IF fetched.entries = <<>> \/ fetched.entries[1].key = <<>>
                   THEN /\ result' = Result("_add_file", arg, "ok", <<>>)
                        /\ UNCHANGED <<pc, entry, custom_key_tries>>
                   ELSE /\ entry' = PrepareEntry(fetched.entries[1])
                        /\ custom_key_tries' = 0
                        /\ pc' = "add"
                        /\ result' = Result("_add_file", arg, "running", <<>>)
    /\ UNCHANGED <<bib, bibindex, has_fts, disk, search_cache, committed_files>>

(***************************************************************************)
(* _get_cache_or_search_result of the command line.                        *)
(***************************************************************************)
\* BibDB.load_search_cache: the cached list, Null (None) without a file
load_search_cache == IF search_cache.exists THEN yaml_load(search_cache.doc) ELSE Null

\* lines 179-183: the check of entry_index and the item results[entry_index]
\* of a Python list, where a negative index counts from the end
CacheItem(results, entry_index) ==
    IF entry_index >= Len(results)
    THEN [status |-> "exit", rows |-> <<>>]      \* "You requested result {}, but only {} ..."
    ELSE [status |-> "ok",
          rows |-> <<IF entry_index >= 0 THEN results[entry_index + 1]
                     ELSE results[Len(results) + entry_index + 1]>>]

_get_cache_or_search_result(search_terms) ==
    /\ pc = "idle"
    /\ LET results == load_search_cache
           numeric == /\ Len(search_terms) = 1
                      /\ search_terms[1] # <<>>
                      /\ search_terms[1][1] \in DigitChars        \* re.match(r'\d+', ...)
           out == IF Len(search_terms) = 0 \/ numeric
                  THEN IF results = Null \/ results = <<>>
                       THEN [status |-> "exit", rows |-> <<>>]   \* "No documents found in search cache."
                       ELSE IF Len(search_terms) = 0 THEN CacheItem(results, 0)
                       ELSE IF ~IsInt(search_terms[1])
                            THEN [status |-> "raised", rows |-> <<>>]   \* int(): ValueError
                       ELSE CacheItem(results, ParseInt(search_terms[1]) - 1)
                  ELSE [status |-> "raised", rows |-> <<>>]      \* args is no name of this function: NameError
       IN  /\ result' = Result("_get_cache_or_search_result", search_terms, out.status, out.rows)
           /\ pc' = IF out.status = "ok" THEN "idle" ELSE "exited"
    /\ UNCHANGED <<bib, bibindex, has_fts, disk, search_cache, entry, custom_key_tries,
                   downloaded_files, committed_files>>

(***************************************************************************)
(* The query translators, called on their own.                             *)
(***************************************************************************)
\* BibDB._format_query_fts: the expression, or the exception
format_query_fts(query_terms) ==
    /\ pc = "idle"
    /\ LET expr == _format_query_fts(query_terms)
       IN  result' = Result("_format_query_fts", query_terms,
                            IF expr.ok THEN "ok" ELSE "raised",
                            IF expr.ok THEN <<expr.text>> ELSE <<>>)
    /\ UNCHANGED <<bib, bibindex, has_fts, disk, search_cache, pc, entry, custom_key_tries,
                   downloaded_files, committed_files>>

\* BibDB._format_query_no_fts: the predicate string followed by the bound values
format_query_no_fts(input_terms) ==
    /\ pc = "idle"
    /\ result' = Result("_format_query_no_fts", input_terms, "ok",
                        <<where_clause(input_terms)>>
                            \o Concat([i \in DOMAIN input_terms |->
                                          FormatTermNoFts(input_terms[i]).values]))
    /\ UNCHANGED <<bib, bibindex, has_fts, disk, search_cache, pc, entry, custom_key_tries,
                   downloaded_files, committed_files>>

Next ==
    \/ \E e \in AddInputs : add_begin(e)
    \/ add_try
    \/ \E key \in RemoveKeys : remove(key)
    \/ \E e \in EditedEntries : update(e)
    \/ \E original_key \in RenameKeys, new_custom_key \in NewKeys :
           update_custom_key(original_key, new_custom_key)
    \/ save
    \/ \E query \in Queries \cup {Q_title_deep, Q_title_dee, Q_pub_acl} : search(query)
    \/ \E key \in LookupKeys : search_key(key)
    \/ \E file \in {F_url} : file_has_been_downloaded(file)
    \/ \E file \in {F_url} : register_file_downloaded(file)
    \/ \E fname \in {F_url, F_local}, force_redownload \in BOOLEAN, fetched \in Fetches :
           _add_file(fname, force_redownload, fetched)
    \/ \E q \in TranslatorQueries : format_query_fts(q)
    \/ \E q \in TranslatorQueries : format_query_no_fts(q)
    \/ \E search_terms \in CacheTerms : _get_cache_or_search_result(search_terms)
    \/ restart

Spec == Init /\ [][Next]_vars

(***************************************************************************)
(* Specifications of parts of the program: the same actions, started from  *)
(* one kind of store and restricted to the calls a property is about.      *)
(***************************************************************************)
\* the record operations on a store that starts empty
NextStore ==
    \/ \E e \in AddInputs : add_begin(e)
    \/ add_try
    \/ \E key \in RemoveKeys : remove(key)
    \/ \E e \in EditedEntries : update(e)
    \/ \E original_key \in RenameKeys, new_custom_key \in NewKeys :
           update_custom_key(original_key, new_custom_key)

SpecStore == InitWith({0}) /\ [][NextStore]_vars

\* add and remove on a store whose base key and all its suffixes are taken
NextCeiling ==
    \/ \E e \in AddInputs : add_begin(e)
    \/ add_try
    \/ \E key \in RemoveKeys : remove(key)
    \/ restart

SpecCeiling == InitWith({MaxCustomKeyTries}) /\ [][NextCeiling]_vars

\* searches between changes of two records
NextSearch ==
    \/ \E e \in {E_smith20, E_smith20b} : add_begin(e)
    \/ add_try
    \/ remove(K_smith20)
    \/ \E e \in EditedEntries : update(e)
    \/ \E query \in Queries \cup {Q_title_deep, Q_title_dee, Q_pub_acl} : search(query)
    \/ restart

SpecSearch == InitWith({0}) /\ [][NextSearch]_vars

\* batches of changes of two records, commits, and the process stopping
NextCommit ==
    \/ \E e \in {E_smith20, E_clash} : add_begin(e)
    \/ add_try
    \/ \E key \in RemoveKeys : remove(key)
    \/ \E e \in EditedEntries : update(e)
    \/ update_custom_key(K_smith20, K_zz)
    \/ save
    \/ restart

SpecCommit == InitWith({0}) /\ [][NextCommit]_vars

\* records with and without a generated key, and lookups by key
NextKeys ==
    \/ \E e \in {E_smith20, E_clash, E_noyear} : add_begin(e)
    \/ add_try
    \/ \E key \in RemoveKeys : remove(key)
    \/ \E e \in EditedEntries : update(e)
    \/ \E key \in LookupKeys \cup {K_noyear} : search_key(key)

SpecKeys == InitWith({0}) /\ [][NextKeys]_vars

\* sources added and registered, commits, and the process stopping
NextFiles ==
    \/ \E fname \in {F_url, F_url2, F_local}, force_redownload \in BOOLEAN, fetched \in Fetches :
           _add_file(fname, force_redownload, fetched)
    \/ add_try
    \/ \E file \in {F_url, F_url2} : register_file_downloaded(file)
    \/ \E file \in {F_url, F_url2} : file_has_been_downloaded(file)
    \/ save
    \/ restart

SpecFiles == InitWith({0}) /\ [][NextFiles]_vars

\* every operation that writes, on two records and one source, with commits
\* and the process stopping
NextBatch ==
    \/ \E e \in {E_smith20, E_smith20b} : add_begin(e)
    \/ add_try
    \/ remove(K_smith20)
    \/ \E e \in EditedEntries : update(e)
    \/ update_custom_key(K_smith20b, K_zz)
    \/ register_file_downloaded(F_url)
    \/ save
    \/ restart

SpecBatch == InitWith({0}) /\ [][NextBatch]_vars

\* searches, changes of the records found, and lookups in the search cache
NextCache ==
    \/ \E e \in {E_smith20, E_smith20b} : add_begin(e)
    \/ add_try
    \/ remove(K_smith20)
    \/ update_custom_key(K_smith20b, K_zz)
    \/ \E query \in {<<Term.smith>>, <<Term.acl>>} : search(query)
    \/ \E search_terms \in CacheTerms : _get_cache_or_search_result(search_terms)
    \/ save
    \/ restart

SpecCache == InitWith({0}) /\ [][NextCache]_vars

\* the two entries added, removed, committed, in any order
NextExample ==
    \/ \E e \in {JohnEntry(K_smith20), JohnEntry(K_smith20b)} : add_begin(e)
    \/ add_try
    \/ \E key \in {K_smith20, K_smith20b} : remove(key)
    \/ save
    \/ restart

SpecExample == InitWith({0}) /\ [][NextExample]_vars

\* searches with one term and with two, over a store of up to two records
NextConjunction ==
    \/ \E e \in {E_smith20, E_smith20b} : add_begin(e)
    \/ add_try
    \/ \E query \in ConjunctionQueries : search(query)

SpecConjunction == InitWith({0}) /\ [][NextConjunction]_vars

\* the translators applied to term lists
NextTranslate ==
    \/ \E q \in TranslatorQueries : format_query_fts(q)
    \/ \E q \in TranslatorQueries : format_query_no_fts(q)

SpecTranslate == InitWith({0}) /\ [][NextTranslate]_vars

(***************************************************************************)
(* Properties.                                                             *)
(***************************************************************************)
\* C1: after any sequence of add, update, update_custom_key and remove, no
\* two live records have the same primary key (column key) and no two live
\* records have the same custom_key.
C1_UniqueKeys ==
    \A r1 \in DOMAIN bib : \A r2 \in DOMAIN bib \ {r1} :
        /\ bib[r1].key # bib[r2].key
        /\ bib[r1].custom_key # Null => bib[r1].custom_key # bib[r2].custom_key

\* an update that asked for a key another record holds was refused, with
\* three records live
C1_Witness ==
    /\ Cardinality(DOMAIN bib) = 3
    /\ result.op = "update" /\ result.status = "logged:bib.custom_key"

LiveKeys == {bib[r].key : r \in DOMAIN bib}

\* C2: add of a record whose primary key is the primary key of a live record
\* ends at once with added = false: the pass of the loop that meets the live
\* key is the last one, no retry follows, and the table is left as it was.
C2_DuplicateAbandoned ==
    [][(pc = "add" /\ entry.key \in LiveKeys /\ result'.op = "add")
           => /\ pc' = "idle"
              /\ result'.status = "duplicate"
              /\ bib' = bib]_vars

\* the keys the default format gives Smith's 2020 "Deep ..." records with no
\* suffix, with a and with b
SuffixedKey(n) ==
    <<"s", "m", "i", "t", "h", "2", "0", "2", "0">>
        \o <<<<>>, <<"a">>, <<"b">>>>[n + 1]
        \o <<":", "d", "e", "e", "p">>

\* the table holds the first n records of the family and nothing else, and
\* the record being added has a primary key of its own
FamilyPrefix(n) ==
    /\ DOMAIN bib = 1..n
    /\ \A i \in 1..n : bib[i].custom_key = SuffixedKey(i - 1)
    /\ entry.key \notin LiveKeys

\* C3: records with distinct primary keys and the same base key, added one
\* after another to a store with no other colliding key: the first is stored
\* under the key with no suffix, the second with suffix a, the third with
\* suffix b, and each add returns added = true.
C3_Escalation ==
    [][\A n \in 0..2 :
          (pc = "add" /\ pc' = "idle" /\ FamilyPrefix(n))
              => /\ result'.op = "add" /\ result'.status = "added"
                 /\ DOMAIN bib' = 1..(n + 1)
                 /\ bib'[n + 1].key = entry.key
                 /\ bib'[n + 1].custom_key = SuffixedKey(n)
                 /\ \A i \in 1..n : bib'[i] = bib[i]]_vars

\* three records of the family are live under the three keys, the third
\* just added
C3_Witness ==
    /\ pc = "idle"
    /\ result.op = "add" /\ result.status = "added"
    /\ DOMAIN bib = 1..3
    /\ \A i \in 1..3 : bib[i].custom_key = SuffixedKey(i - 1)
    /\ Cardinality(LiveKeys) = 3

\* C4: when every generated candidate has collided and the primary key of
\* the record is not the primary key of a live record, the pass that tries
\* the primary key as custom_key stores the record under it and add returns
\* added = true.
C4_FallbackAccepted ==
    [][(pc = "add" /\ custom_key_tries = MaxCustomKeyTries
            /\ entry.key \notin LiveKeys /\ result'.op = "add")
           => /\ pc' = "idle"
              /\ result'.status = "added"
              /\ \E r \in DOMAIN bib' \ DOMAIN bib :
                     bib'[r].key = entry.key /\ bib'[r].custom_key = entry.key]_vars

\* C5: add ends after a bounded number of passes: the pass after the last
\* generated candidate tries the primary key, and no pass follows it, also
\* when the primary key is the custom_key of another record.
C5_BoundedAttempts == pc = "add" => custom_key_tries <= MaxCustomKeyTries

\* C6: a search with no terms right after a search with terms returns the
\* sequence that search returned and leaves the cache as it is.
C6_EmptyReplays ==
    [][(pc = "idle" /\ result.op = "search" /\ result.status = "ok" /\ result.arg # <<>>
            /\ result'.op = "search" /\ result'.arg = <<>>)
           => /\ result'.status = "ok"
              /\ result'.rows = result.rows
              /\ search_cache' = search_cache]_vars

RenameClash(b, original_key, new_custom_key) ==
    \E r1 \in DOMAIN b : \E r2 \in DOMAIN b \ {r1} :
        b[r1].key = original_key /\ b[r2].custom_key = new_custom_key

IndexOf(b) == UNION {IndexEntries(r, b[r]) : r \in DOMAIN b}

\* the rows whose title holds the word
TitleHits(b, word) == {r \in DOMAIN b : word \in Range(Tokenize(b[r].title))}

\* C9: with the full-text index, after any insert, update or delete the
\* index holds exactly the indexed columns of the live records: a search by
\* a title word finds the records that hold it now and no other.
C9_IndexMirrorsTable ==
    has_fts =>
        /\ bibindex = IndexOf(bib)
        /\ Fts5Match(bibindex, _format_query_fts(Q_title_wide).text).rowids
               = TitleHits(bib, <<"w","i","d","e">>)
        /\ Fts5Match(bibindex, <<"t","i","t","l","e",":","d","e","e","p">>).rowids
               = TitleHits(bib, <<"d","e","e","p">>)

\* a record was removed while another, retitled by an update, is live
C9_Witness ==
    /\ has_fts
    /\ result.op = "remove"
    /\ \E r \in DOMAIN bib : bib[r].title = T_wide_nets
    /\ NextRowid(bib) - 1 > Cardinality(DOMAIN bib)

\* the committed index mirrors the committed table
DiskMirror == disk.bibindex = IF has_fts THEN IndexOf(disk.bib) ELSE {}

\* C10: add, remove and update change nothing of the committed store, so a
\* process that stops before save leaves every committed record as it was;
\* the store opened again holds the committed content, and the committed
\* index mirrors the committed table at all times.
C10_CommittedSurvives ==
    /\ []DiskMirror
    /\ [][(result'.op \in {"add", "remove", "update", "init"})
              => /\ disk' = disk
                 /\ result'.op = "init" => (bib' = disk.bib /\ bibindex' = disk.bibindex)]_vars

\* the store opened again after a stop holds two committed records
C10_Witness ==
    /\ result.op = "init"
    /\ Cardinality(DOMAIN disk.bib) = 2
    /\ bib = disk.bib

\* C11: no step of add, update, update_custom_key, remove or
\* register_file_downloaded changes the committed state; it changes only when
\* the caller calls save.
C11_OnlySaveCommits ==
    [][(result'.op \in {"add", "update", "update_custom_key", "remove",
                        "register_file_downloaded"})
           => (disk' = disk /\ committed_files' = committed_files)]_vars

\* C11 as amended: add, update, remove and register_file_downloaded change
\* nothing of the committed state; update_custom_key is the exception: when
\* it succeeds it commits its change and every pending change of the
\* connection, when it fails it commits nothing.
C11_CommitPoints ==
    [][/\ (result'.op \in {"add", "update", "remove", "register_file_downloaded"})
           => (disk' = disk /\ committed_files' = committed_files)
       /\ (result'.op = "update_custom_key")
           => IF result'.status = "ok"
              THEN /\ disk' = Db(bib', bibindex')
                   /\ committed_files' = downloaded_files'
                   /\ bib'[CHOOSE r \in RowsWithKey(bib, result'.arg[1]) : TRUE].custom_key
                          = result'.arg[2]
              ELSE disk' = disk /\ committed_files' = committed_files]_vars

\* a rename has succeeded and the committed store holds a registered source
\* and two records
C11_Witness ==
    /\ result.op = "update_custom_key" /\ result.status = "ok"
    /\ committed_files = <<F_url>>
    /\ Cardinality(DOMAIN disk.bib) = 2
    /\ disk = Db(bib, bibindex)

\* C12: when the key cannot be generated for the record being added (year,
\* author or title missing or malformed) and its primary key is not live, add
\* stores the record with custom_key equal to its primary key and returns
\* added = true, as it does past the retry ceiling.
C12_GenerationFailureFallsBack ==
    [][(pc = "add" /\ generate_custom_key_raises(entry) /\ entry.key \notin LiveKeys
            /\ result'.op = "add")
           => /\ pc' = "idle"
              /\ result'.status = "added"
              /\ \E r \in DOMAIN bib' \ DOMAIN bib :
                     bib'[r].key = entry.key /\ bib'[r].custom_key = entry.key]_vars

\* the keys the default format can generate for Smith's 2020 "Deep ..."
\* records: no suffix, and one letter a..z
FamilyAutoKeys ==
    {<<"s", "m", "i", "t", "h", "2", "0", "2", "0">> \o sfx \o <<":", "d", "e", "e", "p">> :
        sfx \in {<<>>} \cup {<<LowerAlpha[i]>> : i \in 1..26}}

\* the live records stored under a key of the family
AutoKeyed(b) == {r \in DOMAIN b : b[r].custom_key \in FamilyAutoKeys}

\* the record being added has the surname, year and title word of the family
FamilyEntry(e) ==
    /\ ~generate_custom_key_raises(e)
    /\ generate_custom_key(e, custom_key_format, 0) \in FamilyAutoKeys

C14_UpdateNotFound ==
    [][(pc = "idle" /\ result'.op = "update" /\ result'.status # "rejected"
            /\ RowsWithKey(bib, result'.arg[1]) = {})
           => /\ result'.status = "NotFound"
              /\ bib' = bib
              /\ bibindex' = bibindex]_vars

\* the key is the primary key or the custom_key of a live record
KeyLive(b, key) == \E r \in DOMAIN b : b[r].key = key \/ b[r].custom_key = key

\* C15: remove raises no error; with a key that is neither primary key nor
\* custom_key of a live record it leaves table and index as they are, and a
\* second remove of the same key right after the first changes nothing.
C15_RemoveIdempotent ==
    [][(pc = "idle" /\ result'.op = "remove")
           => /\ result'.status = "ok" /\ pc' = "idle"
              /\ ~KeyLive(bib', result'.arg[1])
              /\ \A r \in DOMAIN bib' : r \in DOMAIN bib /\ bib'[r] = bib[r]
              /\ (~KeyLive(bib, result'.arg[1]) \/ (result.op = "remove" /\ result.arg = result'.arg))
                     => (bib' = bib /\ bibindex' = bibindex)]_vars

\* remove of a key no record has has returned, with the one record of the
\* store, renamed before, still live
C15_Witness ==
    /\ pc = "idle"
    /\ result.op = "remove" /\ result.arg = <<K_smith2020_deep>> /\ result.status = "ok"
    /\ DOMAIN bib = {1}
    /\ bib[1].custom_key = K_zz

\* C16: search_key for the primary key or custom_key of a live record
\* returns the stored text of such a record with the queried key as its
\* entry key, returns nothing for a key no record has, and leaves table,
\* index and committed store as they are.
C16_SearchKey ==
    [][(pc = "idle" /\ result'.op = "search_key")
           => LET key == result'.arg[1]
                  hit == {r \in DOMAIN bib : bib[r].key = key \/ bib[r].custom_key = key}
              IN  /\ bib' = bib /\ bibindex' = bibindex /\ disk' = disk
                  /\ result'.status = "ok"
                  /\ IF hit = {} THEN result'.rows = <<>>
                     ELSE \E r \in hit :
                              result'.rows = <<[bib[r].fulltext EXCEPT !.bibkey = key]>>]_vars

\* a record stored under its generated key was looked up by its primary key:
\* the text returned carries the primary key, the stored text the generated
C16_Witness ==
    /\ result.op = "search_key" /\ result.arg = <<K_smith20>>
    /\ Len(result.rows) = 1 /\ result.rows[1].bibkey = K_smith20
    /\ \E r \in DOMAIN bib :
           /\ bib[r].key = K_smith20
           /\ bib[r].custom_key = K_smith2020_deep
           /\ bib[r].fulltext.bibkey = K_smith2020_deep

\* the sources registered in a table
Registered(table) == {table[i] : i \in DOMAIN table}

\* C17: the registered sources form a set: registering a registered source
\* raises nothing and leaves the table as it is, no source is in the table
\* twice, file_has_been_downloaded answers true exactly for the sources in
\* the table, and a source whose download or parse fails is not registered.
C17_DownloadedSet ==
    [][/\ (pc = "idle" /\ result'.op = "register_file_downloaded")
           => /\ result'.status = "ok" /\ pc' = "idle"
              /\ Registered(downloaded_files') = Registered(downloaded_files) \cup {result'.arg[1]}
              /\ result'.arg[1] \in Registered(downloaded_files)
                     => downloaded_files' = downloaded_files
       /\ (pc = "idle" /\ result'.op = "file_has_been_downloaded")
           => /\ result'.status = "true" <=> result'.arg[1] \in Registered(downloaded_files)
              /\ downloaded_files' = downloaded_files
       /\ (pc = "idle" /\ result'.op = "_add_file" /\ result'.arg[2] # "none")
           => /\ downloaded_files' = downloaded_files
              /\ result'.status \in {"AddFileError", "raised", "file_skipped"}
       /\ \A i, j \in DOMAIN downloaded_files' :
              downloaded_files'[i] = downloaded_files'[j] => i = j]_vars

\* the download of a source has failed and the source is not registered,
\* while another source is
C17_Witness ==
    /\ result.op = "_add_file" /\ result.arg = <<F_url, "URLError">>
    /\ result.status = "AddFileError"
    /\ Registered(downloaded_files) = {F_url2}

\* C18: a search with no terms while no cache file exists returns an empty
\* result and raises no error, with and without the full-text index.
C18_EmptyWithoutCache ==
    [][(pc = "idle" /\ ~search_cache.exists /\ result'.op = "search" /\ result'.arg = <<>>)
           => /\ result'.status = "ok"
              /\ result'.rows = <<>>
              /\ pc' = "idle"]_vars

\* the value of a title-qualified query
TitleWordOf(query) == SubSeq(query[1], 7, Len(query[1]))

\* the result row of a record
ResultRow(b, r) == <<b[r].fulltext, b[r].key>>

\* the records whose title contains the value, letters compared without case
TitleContains(b, value) ==
    {r \in DOMAIN b : b[r].title # Null /\ Like(b[r].title, <<"%">> \o value \o <<"%">>)}

C20_UnknownFieldRejected ==
    [][(pc = "idle" /\ result'.op = "search" /\ result'.arg = Q_pub_acl)
           => /\ result'.status = "raised"
              /\ search_cache' = search_cache]_vars

\* a term that begins with a column name and a colon
KnownQualified(t) ==
    \E c \in {"author", "title", "venue", "year", "key"} : StartsWith(t, ColumnText(c) \o <<":">>)

QuotedBothEnds(t) == t[1] = "\"" /\ t[Len(t)] = "\""

\* C21: the full-text translator turns every non-empty term that is no
\* macro and has no known qualifier into the term wrapped in double quotes,
\* without error; only a term quoted at both ends passes unwrapped.
C21_FreeTextQuoted ==
    (/\ result.op = "_format_query_fts"
     /\ Len(result.arg) = 1
     /\ result.arg[1] # <<>>
     /\ result.arg[1] \notin DOMAIN macros
     /\ ~KnownQualified(result.arg[1]))
        => /\ result.status = "ok"
           /\ result.rows = <<IF QuotedBothEnds(result.arg[1]) THEN result.arg[1]
                              ELSE Quote(result.arg[1])>>

\* the value of a qualified term
ValueOf(t) == SubSeq(t, Find(t, ":") + 1, Len(t))

\* the qualifier of a term, empty for a term without a known one
QualifierOf(t) == IF KnownQualified(t) THEN SubSeq(t, 1, Find(t, ":") - 1) ELSE <<>>

\* every * replaced by %
StarToPercent(s) == [i \in DOMAIN s |-> IF s[i] = "*" THEN "%" ELSE s[i]]

\* C23: in the fallback dialect a term field:value becomes one LIKE
\* comparison on that column (key: on key OR custom_key), and every * of
\* the value is a % in the bound pattern.
C23_WildcardTranslated ==
    (/\ result.op = "_format_query_no_fts"
     /\ Len(result.arg) = 1
     /\ KnownQualified(result.arg[1]))
        => LET t == result.arg[1]
               pattern == <<"%">> \o StarToPercent(ValueOf(t)) \o <<"%">>
           IN  IF QualifierOf(t) = ColumnText("key")
               THEN result.rows = <<<<"(">> \o LikeClause(ColumnText("key")) \o T_or
                                          \o LikeClause(ColumnText("custom_key")) \o <<")">>,
                                    pattern, pattern>>
               ELSE result.rows = <<LikeClause(QualifierOf(t)), pattern>>

\* the number of ? in a text
Placeholders(s) == Cardinality({i \in DOMAIN s : s[i] = "?"})

\* C24: the fallback predicate holds no user value: term lists with the same
\* sequence of qualifiers give the same predicate string, whatever their
\* values, and the predicate has as many ? as there are bound values.
C24_ValuesBound ==
    result.op = "_format_query_no_fts"
        => /\ Placeholders(result.rows[1]) = Len(result.rows) - 1
           /\ \A q \in TranslatorQueries :
                  (/\ Len(q) = Len(result.arg)
                   /\ \A i \in DOMAIN q : QualifierOf(q[i]) = QualifierOf(result.arg[i]))
                      => where_clause(q) = result.rows[1]

\* a qualified term with a wildcard and a free term with a quote character
\* were translated: one bound value for the first, six for the second
C24_Witness ==
    /\ result.op = "_format_query_no_fts"
    /\ result.arg = <<Term.title_star, Term.open_quote>>
    /\ Len(result.rows) = 8
    /\ \E q \in TranslatorQueries : q # result.arg /\ where_clause(q) = result.rows[1]

\* the search BibDB.search runs on the store as it is, in the mode it is in
SearchNow(query) ==
    IF has_fts THEN SearchFts(Db(bib, bibindex), query) ELSE SearchNoFts(Db(bib, bibindex), query)

HasQuote(t) == \E i \in DOMAIN t : t[i] = "\""

AddedNow(e) ==
    /\ pc = "add" /\ entry = PrepareEntry(e)
    /\ pc' = "idle" /\ result'.op = "add" /\ result'.status = "added"

\* the custom key of the record with primary key key
CustomKeyOf(b, key) == {b[r].custom_key : r \in {x \in DOMAIN b : b[x].key = key}}

\* exactly one record, with these keys
HoldsOnly(b, key, custom_key) ==
    /\ Cardinality(DOMAIN b) = 1
    /\ CustomKeyOf(b, key) = {custom_key}

\* C25 as stated: into an empty store the entry smith20 (Smith, John; Deep
\* Wide Networks; 2020) is added under custom key smith20_deep, and then
\* smith20b with the same fields under smith20a_deep.
C25_ShortYearKeys ==
    [][/\ (AddedNow(JohnEntry(K_smith20)) /\ bib = NoRows)
            => CustomKeyOf(bib', K_smith20) = {<<"s","m","i","t","h","2","0","_","d","e","e","p">>}
       /\ (AddedNow(JohnEntry(K_smith20b)) /\ HoldsOnly(bib, K_smith20, <<"s","m","i","t","h","2","0","_","d","e","e","p">>))
            => CustomKeyOf(bib', K_smith20b) = {<<"s","m","i","t","h","2","0","a","_","d","e","e","p">>}]_vars

\* C25, amended: the keys are smith2020:deep and smith2020a:deep, the
\* default template being {surname}{year}{suffix}:{title}.
C25_DefaultTemplateKeys ==
    [][/\ (/\ pc = "add" /\ entry = PrepareEntry(JohnEntry(K_smith20)) /\ bib = NoRows
           /\ pc' = "idle" /\ result'.op = "add")
            => /\ result'.status = "added"
               /\ CustomKeyOf(bib', K_smith20) = {<<"s","m","i","t","h","2","0","2","0",":","d","e","e","p">>}
       /\ (AddedNow(JohnEntry(K_smith20b)) /\ HoldsOnly(bib, K_smith20, <<"s","m","i","t","h","2","0","2","0",":","d","e","e","p">>))
            => CustomKeyOf(bib', K_smith20b) = {<<"s","m","i","t","h","2","0","2","0","a",":","d","e","e","p">>}]_vars

\* both records are stored, the second under the suffixed key
C25_Witness ==
    /\ result.op = "add" /\ result.status = "added"
    /\ Cardinality(DOMAIN bib) = 2
    /\ CustomKeyOf(bib, K_smith20) = {<<"s","m","i","t","h","2","0","2","0",":","d","e","e","p">>}
    /\ CustomKeyOf(bib, K_smith20b) = {<<"s","m","i","t","h","2","0","2","0","a",":","d","e","e","p">>}

\* the original_key field written in the stored text of a row
EmbeddedOriginalKey(row) == fulltext_to_single_entry(row.fulltext).fields.original_key

\* C26: in every live record the original_key field of the stored text is
\* the key column, before and after every step; update and
\* update_custom_key leave the key column of every record as it was.
C26_OriginalKeyKept ==
    [][/\ \A r \in DOMAIN bib : EmbeddedOriginalKey(bib[r]) = bib[r].key
       /\ \A r \in DOMAIN bib' : EmbeddedOriginalKey(bib'[r]) = bib'[r].key
       /\ result'.op \in {"update", "update_custom_key"}
            => /\ DOMAIN bib' = DOMAIN bib
               /\ \A r \in DOMAIN bib : bib'[r].key = bib[r].key]_vars

\* an edit has given the record smith20 another entry key and title
C26_Witness ==
    /\ result.op = "update" /\ result.status = "ok"
    /\ \E r \in DOMAIN bib :
           /\ bib[r].key = K_smith20
           /\ bib[r].custom_key = K_zz
           /\ bib[r].title = T_wide_nets
           /\ EmbeddedOriginalKey(bib[r]) = K_smith20

\* C27: no string is the key of one live record and the custom_key of
\* another.
C27_OneRecordPerKey ==
    \A r1, r2 \in DOMAIN bib : r1 # r2 => bib[r1].key # bib[r2].custom_key

\* the entry key written in the stored text of a row
EmbeddedKey(row) == fulltext_to_single_entry(row.fulltext).key

\* C28: in every live record the entry key of the stored text is the
\* custom_key column.
C28_EmbeddedKeyIsCustomKey ==
    \A r \in DOMAIN bib : EmbeddedKey(bib[r]) = bib[r].custom_key

\* the cached list, empty without a cache file
CacheList == IF search_cache.exists THEN yaml_load(search_cache.doc) ELSE <<>>

\* C29: a replay from the search cache returns only a (fulltext, key) pair
\* of a record that is live in the store with that fulltext.
C29_CacheRefersToLive ==
    [][(pc = "idle" /\ result'.op = "_get_cache_or_search_result" /\ result'.status = "ok")
           => \E r \in DOMAIN bib : ResultRow(bib, r) = result'.rows[1]]_vars

\* C30: _get_cache_or_search_result returns the first cached item for no
\* terms; the N-th cached item for one numeric term N in 1..length, leaving
\* the cache as it is; an error and no item for a numeric N outside that
\* range; and the first row of a fresh search for any other term list.
C30_CacheOrSearch ==
    [][(pc = "idle" /\ result'.op = "_get_cache_or_search_result")
           => LET t == result'.arg
              IN  IF t = <<>>
                  THEN CacheList # <<>> => /\ result'.status = "ok"
                                           /\ result'.rows = <<CacheList[1]>>
                  ELSE IF Len(t) = 1 /\ IsInt(t[1])
                  THEN /\ search_cache' = search_cache
                       /\ IF ParseInt(t[1]) \in 1..Len(CacheList)
                          THEN /\ result'.status = "ok"
                               /\ result'.rows = <<CacheList[ParseInt(t[1])]>>
                          ELSE /\ result'.status # "ok"
                               /\ result'.rows = <<>>
                  ELSE (SearchNow(t).ok /\ SearchNow(t).rows # <<>>)
                           => /\ result'.status = "ok"
                              /\ result'.rows = <<SearchNow(t).rows[1]>>]_vars

=============================================================================
